---- MODULE Spec2Model ----
(***************************************************************************)
(* mediafiler.py: files media found under a source tree into date-named    *)
(* bucket directories of a destination, comparing MD5 sums on a name       *)
(* collision.  File names, EXIF values and bucket names are sequences of   *)
(* one-character strings, so that the regular expression, str.split and    *)
(* str.format of the source are computed rather than assumed.              *)
(***************************************************************************)
EXTENDS Integers, Sequences, FiniteSets, TLC

(***************************************************************************)
(* Bounds of the model.                                                    *)
(***************************************************************************)
\* most files under the source root when the first run starts
MaxSrcFiles == 2
\* runs of main() over the same source and destination
MaxRuns == 2
\* distinct payloads a source file may carry
NData == 2
\* calls on the disk that the environment makes fail, over all runs
MaxFaults == 1

(***************************************************************************)
(* Characters and strings.                                                 *)
(***************************************************************************)
Digits == {"0", "1", "2", "3", "4", "5", "6", "7", "8", "9"}

\* str.lower() on the characters that occur in the model's file names
LowerChar(c) ==
    CASE c = "J" -> "j"
      [] c = "P" -> "p"
      [] c = "G" -> "g"
      [] c = "I" -> "i"
      [] c = "M" -> "m"
      [] OTHER -> c

lower(s) == [i \in 1..Len(s) |-> LowerChar(s[i])]

\* str.endswith(suffix)
EndsWith(s, suf) ==
    /\ Len(s) >= Len(suf)
    /\ SubSeq(s, Len(s) - Len(suf) + 1, Len(s)) = suf

\* str.endswith(tuple of suffixes)
EndsWithAny(s, sufs) == \E suf \in sufs : EndsWith(s, suf)

IMAGE_EXT == { <<".", "j", "p", "g">>, <<".", "j", "p", "e", "g">>,
               <<".", "p", "n", "g">>, <<".", "g", "i", "f">> }
VIDEO_EXT == { <<".", "m", "t", "s">>, <<".", "m", "p", "4">>,
               <<".", "a", "v", "i">> }

AllDigits(s, from, to) == \A i \in from..to : s[i] \in Digits

\* positions at which ([0-9]{8})_[0-9]{6}\. matches in s
DatereMatches(s) ==
    { i \in 1..Len(s) :
        /\ i + 15 <= Len(s)
        /\ AllDigits(s, i, i + 7)
        /\ s[i + 8] = "_"
        /\ AllDigits(s, i + 9, i + 14)
        /\ s[i + 15] = "." }

Min(S) == CHOOSE x \in S : \A y \in S : x <= y

\* re.search(datere, file): <<>> for no match, else <<group(1)>> of the leftmost match
DatereSearch(s) ==
    IF DatereMatches(s) = {} THEN <<>>
    ELSE LET i == Min(DatereMatches(s)) IN << SubSeq(s, i, i + 7) >>

\* "{}-{}".format(a, b)
FormatDash(a, b) == a \o <<"-">> \o b

ColonsOf(s) == { i \in 1..Len(s) : s[i] = ":" }

\* s.split(':', 2): at most two splits, so at most three parts
Split2(s) ==
    IF ColonsOf(s) = {} THEN << s >>
    ELSE LET i1 == Min(ColonsOf(s))
             rest == { i \in ColonsOf(s) : i > i1 }
         IN  IF rest = {} THEN << SubSeq(s, 1, i1 - 1), SubSeq(s, i1 + 1, Len(s)) >>
             ELSE LET i2 == Min(rest)
                  IN  << SubSeq(s, 1, i1 - 1), SubSeq(s, i1 + 1, i2 - 1),
                         SubSeq(s, i2 + 1, Len(s)) >>

UNKNOWN == <<"u", "n", "k", "n", "o", "w", "n">>

(***************************************************************************)
(* Embedded metadata.  A file's metadata is either unreadable (opening the *)
(* image or reading its EXIF raises) or a dictionary from EXIF keys to     *)
(* string values.                                                          *)
(***************************************************************************)
KDateTime == "Exif.Image.DateTime"
KOriginal == "Exif.Photo.DateTimeOriginal"
KMake     == "Exif.Image.Make"

Unreadable == [readable |-> FALSE, exif |-> <<>>]
ExifDict(d) == [readable |-> TRUE, exif |-> d]

\* the result of one call of an infer_*_dest_folder function: it raised, or it
\* returned destdir; consulted lists the tiers whose test the call evaluated
Raised(tiers)       == [raised |-> TRUE, destdir |-> <<>>, consulted |-> tiers]
Returned(d, tiers)  == [raised |-> FALSE, destdir |-> d, consulted |-> tiers]

\* y, m, _ = value.split(':', 2); destdir = "{}-{}".format(y, m)
DestFromExifValue(value, tiers) ==
    LET parts == Split2(value)
    IN  IF Len(parts) # 3 THEN Raised(tiers)
        ELSE Returned(FormatDash(parts[1], parts[2]), tiers)

DestFromFilename(file, tiers, fallback) ==
    LET match == DatereSearch(file)
    IN  IF match # <<>>
        THEN Returned(FormatDash(SubSeq(match[1], 1, 4), SubSeq(match[1], 5, 6)), tiers)
        ELSE fallback

\* the two EXIF fields read in the other order
infer_image_original_first(meta, file) ==
    IF ~meta.readable THEN Raised(<<>>)
    ELSE LET exif_data == meta.exif
             truthy == DOMAIN exif_data # {}
         IN  IF truthy /\ KOriginal \in DOMAIN exif_data
             THEN DestFromExifValue(exif_data[KOriginal], <<"DateTime">>)
             ELSE IF truthy /\ KDateTime \in DOMAIN exif_data
             THEN DestFromExifValue(exif_data[KDateTime],
                                    <<"DateTime", "DateTimeOriginal">>)
             ELSE DestFromFilename(file,
                      <<"DateTime", "DateTimeOriginal", "filename">>,
                      Returned(UNKNOWN,
                               <<"DateTime", "DateTimeOriginal", "filename">>))

infer_image_dest_folder(meta, file) ==
    IF ~meta.readable THEN Raised(<<>>)
    ELSE LET exif_data == meta.exif
             truthy == DOMAIN exif_data # {}
         IN  IF truthy /\ KDateTime \in DOMAIN exif_data
             THEN DestFromExifValue(exif_data[KDateTime], <<"DateTime">>)
             ELSE IF truthy /\ KOriginal \in DOMAIN exif_data
             THEN DestFromExifValue(exif_data[KOriginal],
                                    <<"DateTime", "DateTimeOriginal">>)
             ELSE DestFromFilename(file,
                      <<"DateTime", "DateTimeOriginal", "filename">>,
                      Returned(UNKNOWN,
                               <<"DateTime", "DateTimeOriginal", "filename">>))

\* mtime is the file's modification month, already formatted {:04d}-{:02d};
\* <<>> stands for an os.stat that raises
infer_video_dest_folder(mtime, file) ==
    DestFromFilename(file, <<"filename">>,
        IF mtime = <<>> THEN Raised(<<"filename", "mtime">>)
        ELSE Returned(mtime, <<"filename", "mtime">>))

(***************************************************************************)
(* Paths.  A path is a sequence of components, each a string as above.     *)
(***************************************************************************)
SRC       == << <<"s">> >>
SUB       == << <<"s">>, <<"a">> >>
DST_APART == << <<"d">> >>
DST_UNDER == << <<"s">>, <<"o", "u", "t">> >>

\* pathlib.Path(dir, name), os.path.join(dir, name)
Join(dir, name) == dir \o << name >>
Parent(p)       == SubSeq(p, 1, Len(p) - 1)
Base(p)         == p[Len(p)]
IsUnder(p, top) == Len(p) > Len(top) /\ SubSeq(p, 1, Len(top)) = top

N_DATED == <<"2","0","2","3","0","1","0","1","_","1","0","0","0","0","0",".","j","p","g">>
N_PLAIN == <<"I","M","G",".","J","P","G">>
N_CLIP  == <<"c","l","i","p",".","m","p","4">>
Names   == {N_DATED, N_PLAIN, N_CLIP}

M_OLD == <<"2","0","2","1","-","0","5">>
M_NOW == <<"2","0","2","6","-","1","1">>

EmptyDict == [k \in {} |-> <<>>]
MainMetas == { ExifDict(EmptyDict), Unreadable }

\* what a copy that failed part-way leaves at its destination
Truncated == [data |-> 0, meta |-> Unreadable, mtime |-> M_NOW]

\* where the source tree may hold a file when the first run starts
SrcSlotSeq == << Join(SRC, N_DATED), Join(SRC, N_PLAIN), Join(SRC, N_CLIP),
                 Join(SUB, N_DATED), Join(SUB, N_CLIP) >>
SrcSlots   == { SrcSlotSeq[i] : i \in DOMAIN SrcSlotSeq }
SlotRank(p) == CHOOSE i \in DOMAIN SrcSlotSeq : SrcSlotSeq[i] = p

\* pyexiv2 reads no EXIF from a video container
MetasOf(name) == IF EndsWithAny(lower(name), VIDEO_EXT) THEN { Unreadable } ELSE MainMetas

\* payloads are numbered in the order the slots use them: a tree that differs
\* from another only by renaming payloads is the same tree
PayloadsInOrder(fs) ==
    \A p \in DOMAIN fs :
        \/ fs[p].data = 1
        \/ \E q \in DOMAIN fs : SlotRank(q) < SlotRank(p) /\ fs[q].data >= fs[p].data - 1

ExtList(file_type) == IF file_type = "image" THEN IMAGE_EXT ELSE VIDEO_EXT

Matches(file, file_type) == EndsWithAny(lower(file), ExtList(file_type))

SrcFile  == [data : 1..NData, meta : MainMetas, mtime : {M_OLD}]

\* a file the walk passes over is never opened: one content stands for all
Ignored == [data |-> 1, meta |-> Unreadable, mtime |-> M_OLD]

SrcTree(fs, file_type) ==
    /\ \A p \in DOMAIN fs :
          IF Matches(Base(p), file_type) THEN fs[p].meta \in MetasOf(Base(p))
          ELSE fs[p] = Ignored
    /\ PayloadsInOrder(fs)

Perms(S) ==
    { s \in [1..Cardinality(S) -> S] :
        \A i, j \in 1..Cardinality(S) : i # j => s[i] # s[j] }

(***************************************************************************)
(* The calls main() makes on the file system.  Each yields the set of its  *)
(* possible outcomes: any call that touches the disk may raise.            *)
(***************************************************************************)
Ancestors(p) == { SubSeq(p, 1, n) : n \in 1..Len(p) }

\* pathlib.Path(p).mkdir(parents=True, exist_ok=True)
Mkdir(ds, p) ==
    IF p \in ds THEN { [ok |-> TRUE, dirs |-> ds] }
    ELSE { [ok |-> TRUE, dirs |-> ds \cup Ancestors(p)], [ok |-> FALSE, dirs |-> ds] }

\* a call that raised although its arguments were in order: the disk failed it
EnvFault == TRUE
NoFault  == FALSE

Digest(f) == << "md5", f.data, f.meta >>

get_md5sum(fs, fname) ==
    { [ok |-> TRUE, sum |-> Digest(fs[fname])], [ok |-> FALSE, sum |-> <<>>] }

\* the comparison the wrong way round
compare_md5sums_inverted(fs, fnamea, fnameb) ==
    { IF a.ok /\ b.ok THEN [ok |-> TRUE, equal |-> (a.sum # b.sum)]
                      ELSE [ok |-> FALSE, equal |-> FALSE] :
        a \in get_md5sum(fs, fnamea), b \in get_md5sum(fs, fnameb) }

compare_md5sums(fs, fnamea, fnameb) ==
    { IF a.ok /\ b.ok THEN [ok |-> TRUE, equal |-> (a.sum = b.sum)]
                      ELSE [ok |-> FALSE, equal |-> FALSE] :
        a \in get_md5sum(fs, fnamea), b \in get_md5sum(fs, fnameb) }

Put(fs, p, f) == [q \in DOMAIN fs \cup {p} |-> IF q = p THEN f ELSE fs[q]]

\* shutil.copy2(src, dst): content and modification time; dst is overwritten
Copy2(fs, ds, src, dst) ==
    IF Parent(dst) \notin ds THEN { [ok |-> FALSE, fault |-> NoFault, files |-> fs] }
    ELSE { [ok |-> TRUE,  fault |-> NoFault,  files |-> Put(fs, dst, fs[src])],
           [ok |-> FALSE, fault |-> EnvFault, files |-> fs],
           [ok |-> FALSE, fault |-> EnvFault, files |-> Put(fs, dst, Truncated)] }

Letters == {"a", "7"}
RandLen == 5

\* rand_str(length): here the strings made of one repeated letter
rand_str(length) == { [i \in 1..length |-> c] : c \in Letters }

PrefixedName(prefix, file) == FormatDash(prefix, file)

Candidates(fs, top, file_type) ==
    { p \in DOMAIN fs : IsUnder(p, top) /\ Matches(Base(p), file_type) }

\* lines 95-102 for one matching file: the walk yields (root, file, dstdir), or
\* logs the exception the inference raised and yields nothing for the file
TryInfer(file_type, f, file) ==
    LET r == IF file_type = "image" THEN infer_image_dest_folder(f.meta, file)
             ELSE infer_video_dest_folder(f.mtime, file)
    IN  [yielded |-> ~r.raised, dstdir |-> r.destdir, consulted |-> r.consulted]

(***************************************************************************)
(* The body of main()'s for loop, for one (srcdir, file, dstpart) the walk *)
(* yields.  A result says what the iteration decided, whether it raised    *)
(* (which leaves the loop), whether create-if-absent was called (mkdir is  *)
(* "ok", "failed", or "skipped" on a memo hit), and the disk it leaves.    *)
(***************************************************************************)
Result(decision, raised, fault, fs, ds, created, copied, called, existed, differ, target) ==
    [decision |-> decision, raised |-> raised, fault |-> fault, files |-> fs, dirs |-> ds,
     created |-> created, copied |-> copied, mkdir |-> called,
     existed |-> existed, differ |-> differ, target |-> target]

\* the memo test the wrong way round
NeedsMkdirInverted(created, dstpart) == dstpart \in created

\* line 135: the memo decides whether create-if-absent is called
NeedsMkdir(created, dstpart) == dstpart \notin created

\* shutil.copy2(srcpath, target) and what the iteration becomes with it
CopyTo(decision, copied, fs, ds, created, called, existed, differ, srcpath, target) ==
    { IF c.ok
      THEN Result(decision, FALSE, NoFault, c.files, ds, created, copied, called,
                  existed, differ, target)
      ELSE Result("Failed", TRUE, c.fault, c.files, ds, created, 0, called,
                  existed, differ, target) :
        c \in Copy2(fs, ds, srcpath, target) }

\* lines 141-150, once the bucket directory is there
Place(fs, ds, created, called, srcpath, dstdir, file) ==
    LET dstpath == Join(dstdir, file)
        existed == dstpath \in DOMAIN fs
    IN  IF existed
        THEN UNION {
               IF ~h.ok
               THEN { Result("Failed", TRUE, EnvFault, fs, ds, created, 0, called, TRUE, FALSE, <<>>) }
               ELSE IF h.equal
               THEN { Result("SkippedIdentical", FALSE, NoFault, fs, ds, created, 0, called,
                             TRUE, FALSE, <<>>) }
               ELSE UNION { CopyTo("CopiedWithSuffix", 0, fs, ds, created, called,
                                   TRUE, TRUE, srcpath,
                                   Join(dstdir, PrefixedName(prefix, file))) :
                              prefix \in rand_str(RandLen) } :
               h \in compare_md5sums(fs, srcpath, dstpath) }
        ELSE CopyTo("Copied", 1, fs, ds, created, called, FALSE, FALSE, srcpath, dstpath)

\* lines 135-150
LoopBody(fs, ds, created, dst, srcdir, file, dstpart) ==
    LET dstdir  == Join(dst, dstpart)
        srcpath == Join(srcdir, file)
    IN  IF NeedsMkdir(created, dstpart)
        THEN UNION {
               IF m.ok
               THEN Place(fs, m.dirs, created \cup {dstpart}, "ok", srcpath, dstdir, file)
               ELSE { Result("Failed", TRUE, EnvFault, fs, m.dirs, created, 0, "failed",
                             FALSE, FALSE, <<>>) } :
               m \in Mkdir(ds, dstdir) }
        ELSE Place(fs, ds, created, "skipped", srcpath, dstdir, file)

(***************************************************************************)
(* State.                                                                  *)
(***************************************************************************)
VARIABLES
    args,            \* the parsed command line: type, src, dst
    files,           \* the disk: path -> [data, meta, mtime]
    dirs,            \* the disk: the directories that exist
    pc,              \* where main() is: start, walk, summary, done (infer: see SpecInfer)
    run,             \* which run of main() this is
    nfiles, cfiles,  \* main()'s counters
    createdSubdirs,  \* main()'s memo of bucket directories
    walkStack,       \* os.walk: directories still to list, next first
    walkRoot,        \* os.walk: the directory being iterated
    walkFiles,       \* os.walk: files of walkRoot's listing not yet looked at
    inferIn,         \* the last file whose bucket was inferred
    inferOut,        \* what that inference gave
    last,            \* what the last loop iteration did
    cands0,          \* history: the candidate files when the run started
    outcomes,        \* history: path -> the decisions taken for it in this run
    nwritten,        \* history: copies completed in this run
    mkdirDone,       \* history: buckets whose create-if-absent call succeeded in this run
    logged,          \* the summary lines, once logged
    faults           \* calls the environment has made fail so far

vars == << args, files, dirs, pc, run, nfiles, cfiles, createdSubdirs, walkStack,
           walkRoot, walkFiles, inferIn, inferOut, last, cands0, outcomes,
           nwritten, mkdirDone, logged, faults >>

NoInferIn  == [type |-> "none", file |-> <<>>, f |-> Truncated]
NoInferOut == [yielded |-> FALSE, dstdir |-> <<>>, consulted |-> <<>>]
NoLast     == [decision |-> "None", raised |-> FALSE, mkdir |-> "none",
               existed |-> FALSE, differ |-> FALSE, target |-> <<>>,
               src |-> <<>>, dstpath |-> <<>>, bucket |-> <<>>]
NoFiles    == [p \in {} |-> Truncated]
NoOutcomes == [p \in {} |-> <<>>]

Init ==
    /\ \E t \in {"image", "video"}, d \in {DST_APART, DST_UNDER} :
          args = [type |-> t, src |-> SRC, dst |-> d]
    /\ \E slots \in SUBSET SrcSlots :
          /\ Cardinality(slots) <= MaxSrcFiles
          /\ files \in [slots -> SrcFile]
    /\ SrcTree(files, args.type)
    /\ dirs = {SRC, SUB}
    /\ pc = "start"
    /\ run = 1
    /\ nfiles = 0
    /\ cfiles = 0
    /\ createdSubdirs = {}
    /\ walkStack = <<>>
    /\ walkRoot = <<>>
    /\ walkFiles = {}
    /\ inferIn = NoInferIn
    /\ inferOut = NoInferOut
    /\ last = NoLast
    /\ cands0 = {}
    /\ outcomes = NoOutcomes
    /\ nwritten = 0
    /\ mkdirDone = {}
    /\ logged = <<>>
    /\ faults = 0

\* lines 126-131: the counters, the memo, and the destination root
Setup ==
    /\ pc = "start"
    /\ nfiles' = 0
    /\ cfiles' = 0
    /\ createdSubdirs' = {}
    /\ cands0' = Candidates(files, args.src, args.type)
    /\ \E m \in Mkdir(dirs, args.dst) :
          /\ m.ok \/ faults < MaxFaults
          /\ faults' = IF m.ok THEN faults ELSE faults + 1
          /\ dirs' = m.dirs
          /\ pc' = IF m.ok THEN "walk" ELSE "summary"
    /\ walkStack' = << args.src >>
    /\ walkRoot' = <<>>
    /\ walkFiles' = {}
    /\ UNCHANGED << args, files, run, inferIn, inferOut, last, outcomes, nwritten,
                    mkdirDone, logged >>

\* lines 91-93: os.walk lists the next directory, top-down; the subdirectories
\* it found are walked in the listing's order, before the directories left
\* over.  Of the files listed, those whose extension is not of the selected
\* kind are passed over.
ScanDir ==
    /\ pc = "walk"
    /\ walkFiles = {}
    /\ walkStack # <<>>
    /\ LET root == Head(walkStack)
           subdirs == { d \in dirs : Parent(d) = root }
       IN  /\ walkRoot' = root
           /\ walkFiles' = { Base(p) : p \in { q \in DOMAIN files :
                                    /\ Parent(q) = root
                                    /\ Matches(Base(q), args.type) } }
           /\ \E order \in Perms(subdirs) : walkStack' = order \o Tail(walkStack)
    /\ UNCHANGED << args, files, dirs, pc, run, nfiles, cfiles, createdSubdirs,
                    inferIn, inferOut, last, cands0, outcomes, nwritten, mkdirDone,
                    logged , faults >>

\* lines 95-102 when the inference raises: logged, nothing yielded
DropFile ==
    /\ pc = "walk"
    /\ \E file \in walkFiles :
          LET f == files[Join(walkRoot, file)]
              t == TryInfer(args.type, f, file)
          IN  /\ Matches(file, args.type)
              /\ ~t.yielded
              /\ inferIn' = [type |-> args.type, file |-> file, f |-> f]
              /\ inferOut' = t
              /\ walkFiles' = walkFiles \ {file}
    /\ UNCHANGED << args, files, dirs, pc, run, nfiles, cfiles, createdSubdirs,
                    walkStack, walkRoot, last, cands0, outcomes, nwritten,
                    mkdirDone, logged , faults >>

\* lines 95-100 and 133-152: the walk yields a file and main() files it
ProcessFile ==
    /\ pc = "walk"
    /\ \E file \in walkFiles :
          LET srcpath == Join(walkRoot, file)
              f == files[srcpath]
              t == TryInfer(args.type, f, file)
          IN  /\ Matches(file, args.type)
              /\ t.yielded
              /\ inferIn' = [type |-> args.type, file |-> file, f |-> f]
              /\ inferOut' = t
              /\ nfiles' = nfiles + 1
              /\ \E r \in LoopBody(files, dirs, createdSubdirs, args.dst,
                                   walkRoot, file, t.dstdir) :
                    /\ r.fault => faults < MaxFaults
                    /\ faults' = IF r.fault THEN faults + 1 ELSE faults
                    /\ files' = r.files
                    /\ dirs' = r.dirs
                    /\ createdSubdirs' = r.created
                    /\ cfiles' = cfiles + r.copied
                    /\ pc' = IF r.raised THEN "summary" ELSE "walk"
                    /\ walkFiles' = IF r.raised THEN walkFiles ELSE walkFiles \ {file}
                    /\ last' = [decision |-> r.decision, raised |-> r.raised,
                                mkdir |-> r.mkdir, existed |-> r.existed,
                                differ |-> r.differ, target |-> r.target,
                                src |-> srcpath,
                                dstpath |-> Join(Join(args.dst, t.dstdir), file),
                                bucket |-> t.dstdir]
                    /\ outcomes' = Put(outcomes, srcpath,
                                       IF srcpath \in DOMAIN outcomes
                                       THEN Append(outcomes[srcpath], r.decision)
                                       ELSE << r.decision >>)
                    /\ nwritten' = nwritten +
                                   (IF r.decision \in {"Copied", "CopiedWithSuffix"}
                                    THEN 1 ELSE 0)
                    /\ mkdirDone' = IF r.mkdir = "ok"
                                    THEN mkdirDone \cup {t.dstdir} ELSE mkdirDone
    /\ UNCHANGED << args, run, walkStack, walkRoot, cands0, logged >>

\* the generator is exhausted: the for loop ends
EndWalk ==
    /\ pc = "walk"
    /\ walkFiles = {}
    /\ walkStack = <<>>
    /\ pc' = "summary"
    /\ UNCHANGED << args, files, dirs, run, nfiles, cfiles, createdSubdirs,
                    walkStack, walkRoot, walkFiles, inferIn, inferOut, last, cands0,
                    outcomes, nwritten, mkdirDone, logged , faults >>

\* lines 154-155
Summary ==
    /\ pc = "summary"
    /\ logged' = << nfiles, cfiles >>
    /\ pc' = "done"
    /\ UNCHANGED << args, files, dirs, run, nfiles, cfiles, createdSubdirs,
                    walkStack, walkRoot, walkFiles, inferIn, inferOut, last, cands0,
                    outcomes, nwritten, mkdirDone , faults >>

\* the program is started again with the same command line
NextRun ==
    /\ pc = "done"
    /\ run < MaxRuns
    /\ run' = run + 1
    /\ pc' = "start"
    /\ nfiles' = 0
    /\ cfiles' = 0
    /\ createdSubdirs' = {}
    /\ walkStack' = <<>>
    /\ walkRoot' = <<>>
    /\ walkFiles' = {}
    /\ inferIn' = NoInferIn
    /\ inferOut' = NoInferOut
    /\ last' = NoLast
    /\ cands0' = {}
    /\ outcomes' = NoOutcomes
    /\ nwritten' = 0
    /\ mkdirDone' = {}
    /\ logged' = <<>>
    /\ UNCHANGED << args, files, dirs , faults >>

Next ==
    \/ Setup
    \/ ScanDir
    \/ DropFile
    \/ ProcessFile
    \/ EndWalk
    \/ Summary
    \/ NextRun

Spec == Init /\ [][Next]_vars

(***************************************************************************)
(* The bucket inference on its own: lines 95-102 applied to one file, over *)
(* a wider range of EXIF dictionaries and names than the runs above use.   *)
(***************************************************************************)
V_FULL  == <<"2","0","2","2",":","1","2",":","2","4"," ","1","0",":","1","1",":","1","2">>
V_DAY   == <<"2","0","2","1",":","0","7",":","0","1">>
V_MONTH == <<"2","0","2","2",":","1","2">>
V_EMPTY == <<>>
ExifValues == { V_FULL, V_DAY, V_MONTH, V_EMPTY }
ExifKeys   == { KDateTime, KOriginal, KMake }

N_NEAR  == <<"2","0","2","3","0","1","0","_","1","0","0","0","0","0",".","j","p","g">>
N_LEFT  == PrefixedName([i \in 1..RandLen |-> "a"], N_DATED)
InferNames == { N_DATED, N_PLAIN, N_NEAR, N_LEFT }

InferMetas ==
    { Unreadable } \cup
    { ExifDict(d) : d \in UNION { [ks -> ExifValues] : ks \in SUBSET ExifKeys } }

InferInputs ==
    { [type |-> "image", file |-> n, f |-> [data |-> 1, meta |-> m, mtime |-> M_OLD]] :
        n \in InferNames, m \in InferMetas }
    \cup
    { [type |-> "video", file |-> n, f |-> [data |-> 1, meta |-> Unreadable, mtime |-> t]] :
        n \in InferNames, t \in {M_OLD, <<>>} }

InitInfer ==
    /\ inferIn \in InferInputs
    /\ inferOut = NoInferOut
    /\ pc = "infer"
    /\ args = [type |-> inferIn.type, src |-> SRC, dst |-> DST_APART]
    /\ files = NoFiles
    /\ dirs = {}
    /\ run = 1
    /\ nfiles = 0
    /\ cfiles = 0
    /\ createdSubdirs = {}
    /\ walkStack = <<>>
    /\ walkRoot = <<>>
    /\ walkFiles = {}
    /\ last = NoLast
    /\ cands0 = {}
    /\ outcomes = NoOutcomes
    /\ nwritten = 0
    /\ mkdirDone = {}
    /\ logged = <<>>
    /\ faults = 0

InferStep ==
    /\ pc = "infer"
    /\ inferOut' = TryInfer(inferIn.type, inferIn.f, inferIn.file)
    /\ pc' = "inferred"
    /\ UNCHANGED << args, files, dirs, run, nfiles, cfiles, createdSubdirs, walkStack,
                    walkRoot, walkFiles, inferIn, last, cands0, outcomes, nwritten,
                    mkdirDone, logged, faults >>

NextInfer == InferStep

SpecInfer == InitInfer /\ [][NextInfer]_vars

(***************************************************************************)
(* What the specification says the bucket of an image is.  A date field    *)
(* yields a date when it is present and splits into year:month:rest; a     *)
(* field that does not is passed over, like an absent one.                 *)
(***************************************************************************)
WellFormed(value) == Cardinality(ColonsOf(value)) >= 2

FieldYields(meta, key) ==
    /\ meta.readable
    /\ key \in DOMAIN meta.exif
    /\ WellFormed(meta.exif[key])

YearMonth(value) == FormatDash(Split2(value)[1], Split2(value)[2])

NameYields(file) == DatereMatches(file) # {}

NameMonth(file) ==
    LET i == Min(DatereMatches(file))
    IN  FormatDash(SubSeq(file, i, i + 3), SubSeq(file, i + 4, i + 5))

TieredBucket(meta, file) ==
    IF FieldYields(meta, KDateTime) THEN YearMonth(meta.exif[KDateTime])
    ELSE IF FieldYields(meta, KOriginal) THEN YearMonth(meta.exif[KOriginal])
    ELSE IF NameYields(file) THEN NameMonth(file)
    ELSE UNKNOWN

\* the tiers up to and including the first that yields
TiersNeeded(meta, file) ==
    IF FieldYields(meta, KDateTime) THEN <<"DateTime">>
    ELSE IF FieldYields(meta, KOriginal) THEN <<"DateTime", "DateTimeOriginal">>
    ELSE <<"DateTime", "DateTimeOriginal", "filename">>

\* reading the metadata fails: the image cannot be opened, or the date field the
\* code reads does not split
ReadFails(meta) ==
    \/ ~meta.readable
    \/ /\ KDateTime \in DOMAIN meta.exif
       /\ ~WellFormed(meta.exif[KDateTime])
    \/ /\ KDateTime \notin DOMAIN meta.exif
       /\ KOriginal \in DOMAIN meta.exif
       /\ ~WellFormed(meta.exif[KOriginal])

Inferred == pc = "inferred" /\ inferIn.type = "image"

\* C6: a failure to read or parse an image's metadata counts as metadata absent:
\* the walk still yields the file, with the bucket of the next tier that yields
C6_MetadataFailureFallsThrough ==
    (Inferred /\ ReadFails(inferIn.f.meta)) =>
        /\ inferOut.yielded
        /\ inferOut.dstdir = TieredBucket(inferIn.f.meta, inferIn.file)

\* C8: with readable metadata the bucket comes from the first of DateTime,
\* DateTimeOriginal, file name that yields a date, it is "unknown" exactly when
\* none does, and no tier after the first that yields is consulted
C8_TierOrder ==
    (Inferred /\ ~ReadFails(inferIn.f.meta)) =>
        /\ inferOut.yielded
        /\ inferOut.dstdir = TieredBucket(inferIn.f.meta, inferIn.file)
        /\ inferOut.consulted = TiersNeeded(inferIn.f.meta, inferIn.file)
        /\ (inferOut.dstdir = UNKNOWN) <=>
              ( /\ ~FieldYields(inferIn.f.meta, KDateTime)
                /\ ~FieldYields(inferIn.f.meta, KOriginal)
                /\ ~NameYields(inferIn.file) )

\* the second tier decides although the first one is present too
C8_Witness ==
    /\ Inferred
    /\ ~ReadFails(inferIn.f.meta)
    /\ KDateTime \notin DOMAIN inferIn.f.meta.exif
    /\ FieldYields(inferIn.f.meta, KOriginal)
    /\ NameYields(inferIn.file)
    /\ inferOut.dstdir = YearMonth(inferIn.f.meta.exif[KOriginal])
    /\ inferOut.dstdir # NameMonth(inferIn.file)

(***************************************************************************)
(* Properties of the runs.                                                 *)
(***************************************************************************)
UnderDst(p) == IsUnder(p, args.dst)

\* a step of the for loop: the only steps that count a file
LoopStep == nfiles' = nfiles + 1

\* C1: no file that exists under the destination root has its content replaced
C1_NeverOverwrites ==
    [][ \A p \in DOMAIN files :
          UnderDst(p) => /\ p \in DOMAIN files'
                         /\ Digest(files'[p]) = Digest(files[p]) ]_vars

\* the candidates the abandoned walk had not reached and would have yielded
Unreached ==
    { p \in DOMAIN files :
        /\ Matches(Base(p), args.type)
        /\ TryInfer(args.type, files[p], Base(p)).yielded
        /\ p \notin DOMAIN outcomes
        /\ \/ Parent(p) = walkRoot /\ Base(p) \in walkFiles
           \/ \E i \in DOMAIN walkStack :
                 Parent(p) = walkStack[i] \/ IsUnder(Parent(p), walkStack[i]) }

\* C2: a failure while filing one candidate does not keep the candidates after
\* it from being processed in the same run
C2_FailureIsLocal ==
    (pc = "done" /\ last.raised) => Unreached = {}

\* C3: with no call failing, a run after the first writes nothing, counts no
\* copy, and resolves every file the walk yields as identical
C3_SecondRunWritesNothing ==
    (run > 1 /\ faults = 0) =>
        /\ nwritten = 0
        /\ cfiles = 0
        /\ \A p \in DOMAIN outcomes :
              \A i \in DOMAIN outcomes[p] : outcomes[p][i] = "SkippedIdentical"

Decisions == {"Copied", "CopiedWithSuffix", "SkippedIdentical", "Failed"}

\* C4: once a run whose setup succeeded is over, every file that was a candidate
\* when it started has exactly one decision, and no file has more than one
C4_OneDecisionEach ==
    (pc = "done" /\ args.dst \in dirs) =>
        /\ \A p \in cands0 :
              /\ p \in DOMAIN outcomes
              /\ Len(outcomes[p]) = 1
              /\ outcomes[p][1] \in Decisions
        /\ \A p \in DOMAIN outcomes : Len(outcomes[p]) = 1

LowerAlnum ==
    { "a","b","c","d","e","f","g","h","i","j","k","l","m","n","o","p","q","r","s",
      "t","u","v","w","x","y","z","0","1","2","3","4","5","6","7","8","9" }

\* name is {p}-{file} for a 5-character p over [a-z0-9]
IsPrefixedBy5(name, file) ==
    /\ Len(name) = Len(file) + 6
    /\ \A i \in 1..5 : name[i] \in LowerAlnum
    /\ name[6] = "-"
    /\ SubSeq(name, 7, Len(name)) = file

Frame(fs1, fs2, except) ==
    /\ DOMAIN fs1 \subseteq DOMAIN fs2
    /\ \A p \in DOMAIN fs2 \ except : p \in DOMAIN fs1 /\ fs2[p] = fs1[p]

\* C5: when the destination path exists it is left as it is; a file is written
\* exactly when the digests differ, to {p}-{file} beside it, with the source's
\* content; with equal digests the step leaves the disk as it was
C5_CollisionPolicy ==
    [][ (LoopStep /\ last'.dstpath \in DOMAIN files) =>
          LET dstpath == last'.dstpath
              src     == last'.src
              differ  == Digest(files[src]) # Digest(files[dstpath])
              target  == last'.target
          IN  /\ dstpath \in DOMAIN files' /\ files'[dstpath] = files[dstpath]
              /\ ~differ => files' = files /\ dirs' = dirs
              /\ ~last'.raised =>
                    /\ (last'.decision = "CopiedWithSuffix") <=> differ
                    /\ (last'.decision = "SkippedIdentical") <=> ~differ
                    /\ differ =>
                          /\ Parent(target) = Parent(dstpath)
                          /\ IsPrefixedBy5(Base(target), Base(dstpath))
                          /\ target \in DOMAIN files'
                          /\ files'[target] = files[src]
                          /\ Frame(files, files', {target})
                          /\ dirs' = dirs ]_vars

\* a source that differs from the file of its name was written beside it
C5_Witness ==
    /\ last.decision = "CopiedWithSuffix"
    /\ last.dstpath \in DOMAIN files
    /\ last.target \in DOMAIN files
    /\ Digest(files[last.target]) = Digest(files[last.src])
    /\ Digest(files[last.dstpath]) # Digest(files[last.src])

\* C7: the summary's "Files copied" is the number of copies the run completed,
\* plain and prefixed, and "Files found" is at least that
C7_CountersExact ==
    (pc = "done") =>
        /\ logged = << nfiles, cfiles >>
        /\ cfiles = nwritten
        /\ nfiles >= nwritten

\* C9: a copy is attempted only into a bucket whose create-if-absent call
\* succeeded earlier in the run; the memo holds such buckets only, and for each
\* of them the call, made again, could only succeed and change nothing
C9_BucketBeforeCopy ==
    /\ (last.target # <<>>) =>
          /\ last.bucket \in mkdirDone
          /\ Join(args.dst, last.bucket) \in dirs
    /\ createdSubdirs \subseteq mkdirDone
    /\ \A b \in createdSubdirs :
          Mkdir(dirs, Join(args.dst, b)) = { [ok |-> TRUE, dirs |-> dirs] }

\* a copy went into a bucket that the memo said was there
C9_Witness ==
    /\ last.mkdir = "skipped"
    /\ last.decision = "CopiedWithSuffix"
    /\ last.bucket \in createdSubdirs

\* C10: the walk yields only files that were under the source when the run
\* started, each at most once
C10_WalkBoundedByStart ==
    /\ DOMAIN outcomes \subseteq cands0
    /\ \A p \in DOMAIN outcomes : Len(outcomes[p]) <= 1
    /\ nfiles <= Cardinality(cands0)

\* main() runs in one thread and never waits: a step that can be taken is taken
FairSpec == Spec /\ WF_vars(Next)

\* every run that starts reaches the summary lines
RunEnds == (pc = "start") ~> (pc = "done" /\ logged = << nfiles, cfiles >>)

TypeOK ==
    /\ pc \in {"start", "walk", "summary", "done", "infer", "inferred"}
    /\ nfiles \in Nat /\ cfiles \in Nat
====
